---- MODULE Spec2Model ----
(***************************************************************************)
(* Model of the HAP TLV codec, hapclient/tlv.py: class TLV with            *)
(* decode_bytes, decode_bytearray, validate_tag and encode_dict.           *)
(*                                                                         *)
(* Python objects are modelled with reference semantics where the code     *)
(* could alias a caller's object: a heap is a sequence of byte sequences   *)
(* and a reference is an index into it.                                    *)
(***************************************************************************)
EXTENDS Integers, Sequences, FiniteSets, TLC

VARIABLES d, ba, t, op, outcome

vars == <<d, ba, t, op, outcome>>

----------------------------------------------------------------------------
(* Bounds of the explored inputs *)

MaxEntries == 2      \* entries of an encode input mapping
MaxFragments == 2    \* the longest values fill MaxFragments records and one byte
MaxRecords == 3      \* records of a decode input stream
MaxCut == 2          \* bytes cut off the end of a stream

----------------------------------------------------------------------------
(* Python values used as tags: int, str (a sequence of characters), None *)

PyInt(n) == [type |-> "int", i |-> n, s |-> <<>>]

PyStr(cs) == [type |-> "str", i |-> 0, s |-> cs]

PyNone == [type |-> "NoneType", i |-> 0, s |-> <<>>]

Digits == {"0", "1", "2", "3", "4", "5", "6", "7", "8", "9"}

DigitVal(c) ==
    CASE c = "0" -> 0 [] c = "1" -> 1 [] c = "2" -> 2 [] c = "3" -> 3
      [] c = "4" -> 4 [] c = "5" -> 5 [] c = "6" -> 6 [] c = "7" -> 7
      [] c = "8" -> 8 [] c = "9" -> 9

RECURSIVE DecimalValue(_)
DecimalValue(cs) ==
    IF Len(cs) = 0 THEN 0
    ELSE 10 * DecimalValue(SubSeq(cs, 1, Len(cs) - 1)) + DigitVal(cs[Len(cs)])

IsDecimal(cs) == Len(cs) > 0 /\ \A k \in 1..Len(cs) : cs[k] \in Digits

\* int(t): an int converts to itself, a str is parsed as an optionally
\* signed decimal literal or raises ValueError, None raises TypeError.
int(x) ==
    CASE x.type = "int" -> [kind |-> "ok", exc |-> "", val |-> x.i]
      [] x.type = "str" ->
            LET signed == Len(x.s) > 0 /\ x.s[1] \in {"-", "+"}
                body == IF signed THEN Tail(x.s) ELSE x.s
            IN  IF IsDecimal(body)
                THEN [kind |-> "ok", exc |-> "",
                      val |-> IF signed /\ x.s[1] = "-"
                              THEN 0 - DecimalValue(body)
                              ELSE DecimalValue(body)]
                ELSE [kind |-> "raise", exc |-> "ValueError", val |-> 0]
      [] OTHER -> [kind |-> "raise", exc |-> "TypeError", val |-> 0]

----------------------------------------------------------------------------
(* Results of a call *)

NoOutcome ==
    [kind |-> "none", exc |-> "", bytes |-> <<>>, map |-> <<>>, bool |-> FALSE]

Raise(e) ==
    [kind |-> "raise", exc |-> e, bytes |-> <<>>, map |-> <<>>, bool |-> FALSE]

ReturnBool(b) ==
    [kind |-> "return", exc |-> "", bytes |-> <<>>, map |-> <<>>, bool |-> b]

ReturnBytes(bs) ==
    [kind |-> "return", exc |-> "", bytes |-> bs, map |-> <<>>, bool |-> FALSE]

ReturnMap(m) ==
    [kind |-> "return", exc |-> "", bytes |-> <<>>, map |-> m, bool |-> FALSE]

----------------------------------------------------------------------------
(* Constants of class TLV *)

kTLVType_Separator == 255

MaxRecordLength == 255

----------------------------------------------------------------------------
(* bytearray primitives *)

Min(a, b) == IF a < b THEN a ELSE b

\* s[:n]
PySliceTo(s, n) == SubSeq(s, 1, Min(n, Len(s)))

\* s[n:]
PySliceFrom(s, n) == SubSeq(s, n + 1, Len(s))

\* tail = ba instead of tail = ba.copy(): the same object
BytearrayCopy_Alias(heap, ref) == [heap |-> heap, ref |-> ref]

\* ba.copy(): a new object with the same bytes
BytearrayCopy(heap, ref) ==
    [heap |-> Append(heap, heap[ref]), ref |-> Len(heap) + 1]

\* bytearray(bs): a new object built from the bytes of bs
BytearrayNew(heap, ref) ==
    [heap |-> Append(heap, heap[ref]), ref |-> Len(heap) + 1]

\* a pop that yields 0 on an empty bytearray instead of raising
BytearrayPop0_Lenient(heap, ref) ==
    IF Len(heap[ref]) = 0
    THEN [kind |-> "ok", exc |-> "", byte |-> 0, heap |-> heap]
    ELSE [kind |-> "ok", exc |-> "", byte |-> Head(heap[ref]),
          heap |-> [heap EXCEPT ![ref] = Tail(@)]]

\* ba.pop(0): removes and returns the first byte, in place; IndexError on
\* an empty bytearray
BytearrayPop0(heap, ref) ==
    IF Len(heap[ref]) = 0
    THEN [kind |-> "raise", exc |-> "IndexError", byte |-> 0, heap |-> heap]
    ELSE [kind |-> "ok", exc |-> "", byte |-> Head(heap[ref]),
          heap |-> [heap EXCEPT ![ref] = Tail(@)]]

\* x = x[n:]: rebinds x to a new object holding the rest
RebindSliceFrom(heap, ref, n) ==
    [heap |-> Append(heap, PySliceFrom(heap[ref], n)), ref |-> Len(heap) + 1]

\* result.append(x): x must be an int in range(256)
BytearrayAppend(bs, x) ==
    IF x.type # "int"
    THEN [kind |-> "raise", exc |-> "TypeError", bytes |-> bs]
    ELSE IF x.i < 0 \/ x.i > 255
    THEN [kind |-> "raise", exc |-> "ValueError", bytes |-> bs]
    ELSE [kind |-> "ok", exc |-> "", bytes |-> Append(bs, x.i)]

----------------------------------------------------------------------------
(* decode_bytearray; the result dict is a sequence of <<key, value>> in    *)
(* insertion order                                                         *)

HasKey(result, key) == \E k \in 1..Len(result) : result[k][1] = key

\* result[key] = value on every record: a later record replaces the value
StoreValue_Overwrite(result, key, value) ==
    IF ~HasKey(result, key)
    THEN Append(result, <<key, value>>)
    ELSE [k \in 1..Len(result) |->
            IF result[k][1] = key THEN <<key, value>> ELSE result[k]]

\* a later record's bytes put in front of the value instead of behind it
StoreValue_Prepend(result, key, value) ==
    IF ~HasKey(result, key)
    THEN Append(result, <<key, value>>)
    ELSE [k \in 1..Len(result) |->
            IF result[k][1] = key
            THEN <<key, value \o result[k][2]>>
            ELSE result[k]]

\* if key not in result: result[key] = value
\* else: for b in value: result[key].append(b)
StoreValue(result, key, value) ==
    IF ~HasKey(result, key)
    THEN Append(result, <<key, value>>)
    ELSE [k \in 1..Len(result) |->
            IF result[k][1] = key
            THEN <<key, result[k][2] \o value>>
            ELSE result[k]]

RECURSIVE DecodeLoop(_, _, _)
DecodeLoop(heap, tail, result) ==
    IF ~(Len(heap[tail]) > 0)
    THEN [out |-> ReturnMap(result), heap |-> heap]
    ELSE LET p1 == BytearrayPop0(heap, tail) IN
         LET p2 == BytearrayPop0(p1.heap, tail) IN
         IF p2.kind = "raise"
         THEN [out |-> Raise(p2.exc), heap |-> p2.heap]
         ELSE LET key == p1.byte
                  length == p2.byte
                  value == PySliceTo(p2.heap[tail], length)
                  rest == RebindSliceFrom(p2.heap, tail, length)
              IN  DecodeLoop(rest.heap, rest.ref,
                             StoreValue(result, key, value))

decode_bytearray(heap, baRef) ==
    LET c == BytearrayCopy(heap, baRef)
    IN  DecodeLoop(c.heap, c.ref, <<>>)

decode_bytes(heap, bsRef) ==
    LET n == BytearrayNew(heap, bsRef)
    IN  decode_bytearray(n.heap, n.ref)

----------------------------------------------------------------------------
(* validate_tag *)

InTagRange(val) == ~(val < 0 \/ val > 255)

validate_tag(x) ==
    LET r == int(x)
    IN  IF r.kind = "ok" THEN ReturnBool(InTagRange(r.val))
        ELSE IF r.exc = "ValueError" THEN ReturnBool(FALSE)
        ELSE Raise(r.exc)

----------------------------------------------------------------------------
(* encode_dict; the input dict is a sequence of <<key, value>> in          *)
(* iteration order, and heap[k] is the value object of entry k             *)

\* fragments of 254 bytes instead of 255
FragmentLength_Short(value) ==
    IF Len(value) > 255 THEN MaxRecordLength - 1 ELSE Len(value)

FragmentLength(value) ==
    IF Len(value) > 255 THEN MaxRecordLength ELSE Len(value)

\* a separator with data is let through to the fragment loop
SeparatorStep_NoCheck(key, value, result) ==
    IF key = PyInt(kTLVType_Separator) /\ Len(value) = 0
    THEN [kind |-> "ok", exc |-> "",
          bytes |-> Append(Append(result, key.i), 0)]
    ELSE [kind |-> "ok", exc |-> "", bytes |-> result]

\* an empty separator emits no record
SeparatorStep_Skip(key, value, result) ==
    IF key = PyInt(kTLVType_Separator) /\ Len(value) > 0
    THEN [kind |-> "raise", exc |-> "ValueError", bytes |-> result]
    ELSE [kind |-> "ok", exc |-> "", bytes |-> result]

\* every empty value emits a zero-length record, not only the separator's
SeparatorStep_AnyEmpty(key, value, result) ==
    IF Len(value) = 0
    THEN LET a == BytearrayAppend(result, key)
         IN  IF a.kind = "raise"
             THEN [kind |-> "raise", exc |-> a.exc, bytes |-> result]
             ELSE [kind |-> "ok", exc |-> "", bytes |-> Append(a.bytes, 0)]
    ELSE IF key = PyInt(kTLVType_Separator)
    THEN [kind |-> "raise", exc |-> "ValueError", bytes |-> result]
    ELSE [kind |-> "ok", exc |-> "", bytes |-> result]

\* if key == TLV.kTLVType_Separator: ...
SeparatorStep(key, value, result) ==
    IF key = PyInt(kTLVType_Separator)
    THEN IF Len(value) = 0
         THEN [kind |-> "ok", exc |-> "",
               bytes |-> Append(Append(result, key.i), 0)]
         ELSE [kind |-> "raise", exc |-> "ValueError", bytes |-> result]
    ELSE [kind |-> "ok", exc |-> "", bytes |-> result]

\* while len(value) > 0: ...
RECURSIVE FragmentLoop(_, _, _, _)
FragmentLoop(heap, value, key, result) ==
    IF ~(Len(heap[value]) > 0)
    THEN [kind |-> "ok", exc |-> "", bytes |-> result, heap |-> heap]
    ELSE LET a1 == BytearrayAppend(result, key) IN
         IF a1.kind = "raise"
         THEN [kind |-> "raise", exc |-> a1.exc, bytes |-> result,
               heap |-> heap]
         ELSE LET length == FragmentLength(heap[value])
                  a2 == BytearrayAppend(a1.bytes, PyInt(length))
              IN  IF a2.kind = "raise"
                  THEN [kind |-> "raise", exc |-> a2.exc, bytes |-> result,
                        heap |-> heap]
                  ELSE LET a3 == a2.bytes \o PySliceTo(heap[value], length)
                           rest == RebindSliceFrom(heap, value, length)
                       IN  FragmentLoop(rest.heap, rest.ref, key, a3)

\* for key in d: ...
RECURSIVE EntryLoop(_, _, _, _)
EntryLoop(dict, k, heap, result) ==
    IF k > Len(dict)
    THEN [out |-> ReturnBytes(result), heap |-> heap]
    ELSE LET key == dict[k][1]
             v == validate_tag(key)
         IN  IF v.kind = "raise"
             THEN [out |-> Raise(v.exc), heap |-> heap]
             ELSE IF ~v.bool
             THEN [out |-> Raise("ValueError"), heap |-> heap]
             ELSE LET s == SeparatorStep(key, heap[k], result) IN
                  IF s.kind = "raise"
                  THEN [out |-> Raise(s.exc), heap |-> heap]
                  ELSE LET f == FragmentLoop(heap, k, key, s.bytes) IN
                       IF f.kind = "raise"
                       THEN [out |-> Raise(f.exc), heap |-> f.heap]
                       ELSE EntryLoop(dict, k + 1, f.heap, f.bytes)

ValueHeap(dict) == [k \in 1..Len(dict) |-> dict[k][2]]

encode_dict(dict) ==
    EntryLoop(dict, 1, ValueHeap(dict), <<>>)

\* the caller's dict after the call: same keys, value objects as left
DictAfter(dict, heap) == [k \in 1..Len(dict) |-> <<dict[k][1], heap[k]>>]

----------------------------------------------------------------------------
(* Inputs *)

Bytes(n) == [k \in 1..n |-> (7 * k + n) % 256]

\* empty, one byte, one full record, one byte more, and MaxFragments full
\* records with and without one byte more
ValueLengths ==
    {0, 1, 255, 256, 255 * MaxFragments, 255 * MaxFragments + 1}

Values == {Bytes(n) : n \in ValueLengths}

Keys ==
    {PyInt(1), PyInt(6), PyInt(255), PyInt(256), PyStr(<<"x">>),
     PyStr(<<"7">>)}

DistinctKeys(dict) ==
    \A j, k \in 1..Len(dict) : j # k => dict[j][1] # dict[k][1]

Dicts ==
    UNION {{dict \in [1..n -> Keys \X Values] : DistinctKeys(dict)} :
           n \in 0..MaxEntries}

TagInputs ==
    {PyInt(n) : n \in {-1, 0, 6, 255, 256}}
        \cup {PyStr(<<"x">>), PyStr(<<"7">>), PyStr(<<"3", "0", "0">>),
              PyStr(<<"-", "1">>), PyStr(<<>>), PyNone}

RecordTags == {6, 7, 255}

Payloads == {<<>>, <<1>>, <<2, 3>>}

RecordBytes(tag, payload) == <<tag, Len(payload)>> \o payload

RECURSIVE StreamsOf(_)
StreamsOf(n) ==
    IF n = 0 THEN {<<>>}
    ELSE {s \o RecordBytes(tag, p) :
            s \in StreamsOf(n - 1), tag \in RecordTags, p \in Payloads}

Streams == UNION {StreamsOf(n) : n \in 0..MaxRecords}

Buffers ==
    {SubSeq(s, 1, Len(s) - c) : s \in Streams, c \in 0..MaxCut}

----------------------------------------------------------------------------
(* The caller holds a mapping d, a buffer ba and a tag t, and calls the    *)
(* codec on them.                                                          *)

Init ==
    /\ \/ d \in Dicts /\ ba = <<>> /\ t = PyInt(0)
       \/ d = <<>> /\ ba \in Buffers /\ t = PyInt(0)
       \/ d = <<>> /\ ba = <<>> /\ t \in TagInputs
    /\ op = "none"
    /\ outcome = NoOutcome

CallDecodeBytes ==
    LET r == decode_bytes(<<ba>>, 1)
    IN  /\ op' = "decode_bytes"
        /\ outcome' = r.out
        /\ ba' = r.heap[1]
        /\ UNCHANGED <<d, t>>

CallDecodeBytearray ==
    LET r == decode_bytearray(<<ba>>, 1)
    IN  /\ op' = "decode_bytearray"
        /\ outcome' = r.out
        /\ ba' = r.heap[1]
        /\ UNCHANGED <<d, t>>

CallValidateTag ==
    /\ op' = "validate_tag"
    /\ outcome' = validate_tag(t)
    /\ UNCHANGED <<d, ba, t>>

CallEncodeDict ==
    LET r == encode_dict(d)
    IN  /\ op' = "encode_dict"
        /\ outcome' = r.out
        /\ d' = DictAfter(d, r.heap)
        /\ UNCHANGED <<ba, t>>

Next ==
    \/ CallDecodeBytes
    \/ CallDecodeBytearray
    \/ CallValidateTag
    \/ CallEncodeDict

Spec == Init /\ [][Next]_vars

----------------------------------------------------------------------------
(* Vocabulary of the properties: the wire format read record by record     *)

DecodeOps == {"decode_bytes", "decode_bytearray"}

\* how a stream ends: on a record boundary, on a tag byte without a length
\* byte, or inside the value of its last record
RECURSIVE StreamShape(_)
StreamShape(s) ==
    IF Len(s) = 0 THEN "wellformed"
    ELSE IF Len(s) = 1 THEN "lonetag"
    ELSE IF s[2] > Len(s) - 2 THEN "shortvalue"
    ELSE StreamShape(SubSeq(s, s[2] + 3, Len(s)))

\* the records of a stream; a last record cut short holds the bytes present
RECURSIVE RecordsOf(_)
RecordsOf(s) ==
    IF Len(s) < 2 THEN <<>>
    ELSE <<[tag |-> s[1], length |-> s[2],
            payload |-> SubSeq(s, 3, Min(s[2] + 2, Len(s)))]>>
         \o RecordsOf(SubSeq(s, s[2] + 3, Len(s)))

\* the payloads of the records tagged tag, concatenated in stream order
RECURSIVE PayloadOf(_, _)
PayloadOf(recs, tag) ==
    IF Len(recs) = 0 THEN <<>>
    ELSE (IF recs[1].tag = tag THEN recs[1].payload ELSE <<>>)
         \o PayloadOf(Tail(recs), tag)

\* the distinct tags of the records, in order of first occurrence
RECURSIVE TagOrder(_, _)
TagOrder(recs, seen) ==
    IF Len(recs) = 0 THEN <<>>
    ELSE IF recs[1].tag \in seen THEN TagOrder(Tail(recs), seen)
    ELSE <<recs[1].tag>> \o TagOrder(Tail(recs), seen \cup {recs[1].tag})

MergedMap(recs) ==
    LET order == TagOrder(recs, {})
    IN  [k \in 1..Len(order) |-> <<order[k], PayloadOf(recs, order[k])>>]

IsSeparatorKey(key) == key = PyInt(kTLVType_Separator)

IsByteTag(key) == key.type = "int" /\ key.i \in 0..255

\* a mapping the encoder accepts by contract: integer tags 0..255, and the
\* separator only with an empty value
EncodableDict(dict) ==
    \A k \in 1..Len(dict) :
        /\ IsByteTag(dict[k][1])
        /\ IsSeparatorKey(dict[k][1]) => Len(dict[k][2]) = 0

\* an entry that must make the encoder fail
BadEntry(e) ==
    \/ e[1].type = "int" /\ e[1].i \notin 0..255
    \/ e[1].type = "str" /\ int(e[1]).kind = "raise"
    \/ IsSeparatorKey(e[1]) /\ Len(e[2]) > 0

HasBadEntry(dict) == \E k \in 1..Len(dict) : BadEntry(dict[k])

RemoveEntry(dict, k) == SubSeq(dict, 1, k - 1) \o SubSeq(dict, k + 1, Len(dict))

MapPairs(m) == {m[k] : k \in 1..Len(m)}

----------------------------------------------------------------------------
(* Properties *)

RoundTripPairs(dict) ==
    {<<dict[k][1].i, dict[k][2]>> :
        k \in {j \in 1..Len(dict) :
                 Len(dict[j][2]) > 0 \/ IsSeparatorKey(dict[j][1])}}

\* C1: round trip. Encoding a mapping with integer tags 0..255 (255 only
\* with an empty value) succeeds, and decoding the encoded bytes yields a
\* mapping that holds every tag with a non-empty value at exactly that
\* value, holds 255 at the empty value when the input has 255, and has no
\* other key.
C1_RoundTrip ==
    (op = "encode_dict" /\ EncodableDict(d)) =>
        /\ outcome.kind = "return"
        /\ LET back == decode_bytes(<<outcome.bytes>>, 1).out
           IN  /\ back.kind = "return"
               /\ MapPairs(back.map) = RoundTripPairs(d)
               /\ Len(back.map) = Cardinality(RoundTripPairs(d))

C1_Witness ==
    /\ op = "encode_dict"
    /\ EncodableDict(d)
    /\ outcome.kind = "return"
    /\ \E j, k \in 1..Len(d) :
          /\ Len(d[j][2]) > 255
          /\ IsSeparatorKey(d[k][1])

RecordIndices(recs, tag) == {j \in 1..Len(recs) : recs[j].tag = tag}

IsInterval(S) == \A a, b \in S : \A c \in a..b : c \in S

SetMax(S) == CHOOSE a \in S : \A b \in S : b <= a

\* C2: fragmentation. In the output of a successful encode, every entry
\* with a value of length n > 0 under tag T is carried by exactly
\* ceil(n/255) consecutive records tagged T, each with a length byte in
\* 1..255 and that many payload bytes, all but the last with length 255,
\* and the payloads concatenated in order equal the value.
C2_Fragmentation ==
    (op = "encode_dict" /\ outcome.kind = "return") =>
        /\ StreamShape(outcome.bytes) = "wellformed"
        /\ \A k \in 1..Len(d) :
              Len(d[k][2]) > 0 =>
                 LET recs == RecordsOf(outcome.bytes)
                     idx == RecordIndices(recs, d[k][1].i)
                 IN  /\ d[k][1].type = "int"
                     /\ IsInterval(idx)
                     /\ Cardinality(idx) = (Len(d[k][2]) + 254) \div 255
                     /\ \A j \in idx :
                           /\ recs[j].length \in 1..255
                           /\ Len(recs[j].payload) = recs[j].length
                           /\ j # SetMax(idx) => recs[j].length = 255
                     /\ PayloadOf(recs, d[k][1].i) = d[k][2]

C2_Witness ==
    /\ op = "encode_dict"
    /\ outcome.kind = "return"
    /\ \E j, k \in 1..Len(d) :
          /\ Len(d[j][2]) = 256
          /\ Len(d[k][2]) = 255 * MaxFragments
    /\ Len(RecordsOf(outcome.bytes)) = MaxFragments + 2

\* C3: merge on decode. Decoding a well-formed stream returns a mapping
\* with one key per distinct tag of the stream, in order of first
\* occurrence, whose value is the concatenation in stream order of the
\* payloads of all records with that tag, adjacent or not.
C3_MergeOnDecode ==
    (op \in DecodeOps /\ StreamShape(ba) = "wellformed") =>
        /\ outcome.kind = "return"
        /\ outcome.map = MergedMap(RecordsOf(ba))

C3_Witness ==
    /\ op = "decode_bytearray"
    /\ StreamShape(ba) = "wellformed"
    /\ outcome.kind = "return"
    /\ LET recs == RecordsOf(ba)
       IN  /\ Len(recs) = 3
           /\ recs[1].tag = recs[3].tag
           /\ recs[2].tag # recs[1].tag
           /\ \A j \in 1..3 : recs[j].length > 0

\* C4: encode fails as a whole. When the mapping has an entry whose tag is
\* not an integer in 0..255, or the separator with a non-empty value, the
\* call raises, returns no bytes, and leaves the caller's mapping and its
\* values as they were, wherever the entry sits.
C4_EncodeFailsWhole ==
    [][(op' = "encode_dict" /\ HasBadEntry(d)) =>
          /\ outcome'.kind = "raise"
          /\ outcome'.bytes = <<>>
          /\ d' = d]_vars

C4_Witness ==
    /\ op = "encode_dict"
    /\ outcome.kind = "raise"
    /\ Len(d) = 2
    /\ ~BadEntry(d[1])
    /\ IsByteTag(d[1][1])
    /\ Len(d[1][2]) > 255
    /\ BadEntry(d[2])

\* C5: a malformed stream is surfaced. Decoding a stream whose last record
\* declares more bytes than remain, or which ends with a lone tag byte,
\* ends in a failure and returns no mapping.
C5_MalformedSurfaced ==
    (op \in DecodeOps /\ StreamShape(ba) # "wellformed") =>
        outcome.kind = "raise"

\* C6: decode does not mutate its input. Across a call of decode_bytes or
\* decode_bytearray, returning or raising, the caller's buffer keeps its
\* bytes.
C6_DecodeKeepsInput ==
    [][op' \in DecodeOps => ba' = ba]_vars

C6_Witness ==
    /\ op = "decode_bytearray"
    /\ outcome.kind = "return"
    /\ Len(RecordsOf(ba)) = 2
    /\ outcome.map # <<>>

\* C7: validate_tag is total. For every input it returns a boolean, true
\* exactly when the input converts to an integer in 0..255, and it never
\* raises.
C7_ValidateTagTotal ==
    op = "validate_tag" =>
        /\ outcome.kind = "return"
        /\ outcome.bool = (int(t).kind = "ok" /\ int(t).val \in 0..255)

\* C8: separator emission. The output of a successful encode has a record
\* tagged 255 exactly when the mapping has key 255; it is then the only
\* one, has length 0 and no payload, and sits between the records of the
\* entries before key 255 and those of the entries after it. The mapping
\* {255: empty} encodes to the two bytes FF 00.
C8_SeparatorEmission ==
    (op = "encode_dict" /\ outcome.kind = "return") =>
        LET recs == RecordsOf(outcome.bytes)
            sep == RecordIndices(recs, kTLVType_Separator)
            keyIdx == {k \in 1..Len(d) : IsSeparatorKey(d[k][1])}
        IN  /\ (sep # {}) <=> (keyIdx # {})
            /\ Cardinality(sep) <= 1
            /\ \A j \in sep, k \in keyIdx :
                  /\ recs[j].length = 0
                  /\ recs[j].payload = <<>>
                  /\ \A a \in 1..(j - 1) :
                        \E m \in 1..(k - 1) : d[m][1] = PyInt(recs[a].tag)
                  /\ \A a \in (j + 1)..Len(recs) :
                        \E m \in (k + 1)..Len(d) : d[m][1] = PyInt(recs[a].tag)
            /\ (d = <<<<PyInt(255), <<>>>>>>) => outcome.bytes = <<255, 0>>

C8_Witness ==
    /\ op = "encode_dict"
    /\ outcome.kind = "return"
    /\ Len(d) = 2
    /\ IsSeparatorKey(d[2][1])
    /\ Len(d[1][2]) > 255
    /\ RecordsOf(outcome.bytes)[3].tag = kTLVType_Separator

\* C9: empty values of tags other than 255 are dropped. In a successful
\* encode, an entry with an integer tag other than 255 and an empty value
\* adds nothing: the output equals the encoding of the mapping without
\* that entry, and decoding the output gives a mapping without that tag.
C9_EmptyValueDropped ==
    (op = "encode_dict" /\ outcome.kind = "return") =>
        \A k \in 1..Len(d) :
           (IsByteTag(d[k][1]) /\ ~IsSeparatorKey(d[k][1])
                /\ Len(d[k][2]) = 0) =>
              /\ encode_dict(RemoveEntry(d, k)).out = outcome
              /\ ~HasKey(decode_bytes(<<outcome.bytes>>, 1).out.map,
                         d[k][1].i)

C9_Witness ==
    /\ op = "encode_dict"
    /\ outcome.kind = "return"
    /\ Len(d) = 2
    /\ IsByteTag(d[1][1]) /\ ~IsSeparatorKey(d[1][1]) /\ Len(d[1][2]) = 0
    /\ Len(d[2][2]) > 0
    /\ outcome.bytes # <<>>

\* C10 as stated: decoding a truncated stream never signals a failure, in
\* the short-value case and in the lone-tag-byte case alike, and returns a
\* mapping in which the cut record contributes the bytes that were there.
C10_SilentTruncation ==
    (op \in DecodeOps /\ StreamShape(ba) # "wellformed") =>
        /\ outcome.kind = "return"
        /\ outcome.map = MergedMap(RecordsOf(ba))

\* C10 as amended: decoding a stream whose last record declares more bytes
\* than remain after its length byte returns, without a failure, the
\* mapping in which that record contributes only the bytes present; a
\* stream that ends with a lone tag byte makes decode raise IndexError.
C10_TruncationByCase ==
    op \in DecodeOps =>
        /\ StreamShape(ba) = "shortvalue" =>
              /\ outcome.kind = "return"
              /\ outcome.map = MergedMap(RecordsOf(ba))
        /\ StreamShape(ba) = "lonetag" =>
              /\ outcome.kind = "raise"
              /\ outcome.exc = "IndexError"

C10_Witness ==
    /\ op = "decode_bytearray"
    /\ StreamShape(ba) = "shortvalue"
    /\ outcome.kind = "return"
    /\ LET recs == RecordsOf(ba)
       IN  /\ Len(recs) = 2
           /\ recs[1].tag = recs[2].tag
           /\ recs[2].length = 2
           /\ Len(recs[2].payload) = 1

====
